---- MODULE Spec2Model ----
(***************************************************************************)
(* Word-resolution pipeline of txt-ewClassifiers (src/main.go): the        *)
(* two-tier persistent cache behind fetchWordDetails (wordCache,           *)
(* wordUnknown and their files), the query policy read by                  *)
(* loadQueryConfig, and the lookups processAllFiles issues.                *)
(*                                                                         *)
(* Strings the code transforms (words, example sentences) are sequences    *)
(* of ASCII codes, so that strings.ToLower and capitalizePhrase are        *)
(* computed and not assumed.  A WordCache value keeps its Definitions;     *)
(* Phonetic, Origin, Synonyms and Antonyms are left out: no branch of the  *)
(* resolver or of the pipeline reads them.  Writes of the cache files are  *)
(* taken to succeed (saveWordCache and saveWordUnknown drop the error of   *)
(* ioutil.WriteFile).                                                      *)
(***************************************************************************)
EXTENDS Integers, Sequences, FiniteSets, TLC

VARIABLES
    queryConfigYml,        \* queryConfig.yml on disk
    queryConfig,           \* global queryConfig, with how it was obtained
    wordCache,             \* global wordCache: map[string]WordCache
    wordUnknown,           \* global wordUnknown: map[string]bool
    cacheFile,             \* word_cache.json
    unknownFile,           \* word_unknown.json
    last,                  \* the last operation: its word and its remote lookup
    ret,                   \* what the last fetchWordDetails returned
    tick,                  \* flips on every call, so that no call is a stuttering step
    config,                \* global config (OutputConfig)
    run,                   \* processAllFiles: its locals and the files it writes
    fn                     \* the last call of a helper: its arguments and its result

vars == <<queryConfigYml, queryConfig, wordCache, wordUnknown, cacheFile,
          unknownFile, last, ret, tick, config, run, fn>>

----------------------------------------------------------------------------
(* Bounds *)

\* meanings in element 0 of a remote response
MaxMeanings == 1
\* definitions in one meaning of a remote response
MaxDefs == 1
\* tokens in the input text of one run
MaxTokens == 2
\* phrases in a list that is counted and ranked
MaxItems == 3
\* definitions of a record whose example sentences are generated
MaxExamples == 3
\* characters of a text tested by isEnglishText
MaxChars == 2

----------------------------------------------------------------------------
(* Strings *)

SeqsUpTo(S, n) == UNION {[1..k -> S] : k \in 0..n}
Range(f) == {f[i] : i \in DOMAIN f}

ToLowerChar(c) == IF c \in 65..90 THEN c + 32 ELSE c
ToUpperChar(c) == IF c \in 97..122 THEN c - 32 ELSE c

\* strings.ToLower
ToLower(s) == [i \in DOMAIN s |-> ToLowerChar(s[i])]
\* unicode.IsSpace on ASCII
IsSpace(c) == c \in {9, 10, 11, 12, 13, 32}

\* strings.Fields: the maximal runs of non-space characters
RECURSIVE Fields(_)
Fields(s) ==
    IF s = <<>> THEN <<>>
    ELSE IF IsSpace(Head(s)) THEN Fields(Tail(s))
    ELSE LET stops == {i \in 1..Len(s) : IsSpace(s[i])}
             n == IF stops = {} THEN Len(s)
                  ELSE (CHOOSE i \in stops : \A j \in stops : i <= j) - 1
         IN  <<SubSeq(s, 1, n)>> \o Fields(SubSeq(s, n + 1, Len(s)))

\* strings.Join(words, " ")
RECURSIVE JoinSpace(_)
JoinSpace(ws) ==
    IF ws = <<>> THEN <<>>
    ELSE IF Len(ws) = 1 THEN ws[1]
    ELSE ws[1] \o <<32>> \o JoinSpace(Tail(ws))

capitalizePhrase(phrase) ==
    LET words == Fields(phrase)
        cap(w) == <<ToUpperChar(w[1])>> \o ToLower(Tail(w))
    IN  JoinSpace([i \in DOMAIN words |-> cap(words[i])])

\* The words of the model: "ab" and "cd", and the casings they are passed in
wAb == <<97, 98>>
wCd == <<99, 100>>
Words == {wAb, wCd}
CallArgs == {wAb, <<65, 98>>, wCd, <<67, 68>>}

----------------------------------------------------------------------------
(* Records and remote responses *)

\* The example sentence of a definition in a remote response: "e"
ExampleTexts == {<<101>>}

\* type Definition
Definition == [PartOfSpeech : {"noun"}, Definition : {"d"}, Example : ExampleTexts]

\* type WordCache
WordCache == [Definitions : SeqsUpTo(Definition, MaxMeanings * MaxDefs)]

NoData == [Definitions |-> <<>>]

\* One element of a "definitions" array: a JSON object, or anything else
DefItems == {[isMap |-> FALSE, example |-> <<>>]}
            \cup [isMap : {TRUE}, example : ExampleTexts]

\* One element of "meanings": a JSON object with or without a "definitions"
\* array, or anything else
Meanings ==
    {[isMap |-> FALSE, hasDefs |-> FALSE, definitions |-> <<>>],
     [isMap |-> TRUE, hasDefs |-> FALSE, definitions |-> <<>>]}
    \cup [isMap : {TRUE}, hasDefs : {TRUE}, definitions : SeqsUpTo(DefItems, MaxDefs)]

\* result[0] of a response that parsed to a non-empty list
Responses ==
    {[hasMeanings |-> FALSE, meanings |-> <<>>]}
    \cup [hasMeanings : {TRUE}, meanings : SeqsUpTo(Meanings, MaxMeanings)]

NoResponse == [hasMeanings |-> FALSE, meanings |-> <<>>]

\* What one remote lookup can end in
FailureKinds == {"request", "transport", "status", "parse", "empty"}
Outcomes == [kind : FailureKinds, resp : {NoResponse}]
            \cup [kind : {"ok"}, resp : Responses]

\* The definitions of one "definitions" array, non-objects skipped
RECURSIVE ExtractDefs(_)
ExtractDefs(items) ==
    IF items = <<>> THEN <<>>
    ELSE IF ~Head(items).isMap THEN ExtractDefs(Tail(items))
    ELSE <<[PartOfSpeech |-> "noun", Definition |-> "d",
            Example |-> Head(items).example]>> \o ExtractDefs(Tail(items))

\* The definitions of all meanings, in order
RECURSIVE ExtractMeanings(_)
ExtractMeanings(ms) ==
    IF ms = <<>> THEN <<>>
    ELSE (IF Head(ms).isMap /\ Head(ms).hasDefs
          THEN ExtractDefs(Head(ms).definitions) ELSE <<>>)
         \o ExtractMeanings(Tail(ms))

\* cachedData as built from result[0]
BuildCachedData(resp) ==
    [Definitions |-> IF resp.hasMeanings THEN ExtractMeanings(resp.meanings) ELSE <<>>]

----------------------------------------------------------------------------
(* Files *)

\* json.MarshalIndent of a map: the members of the JSON object
Marshal(m) == {<<k, m[k]>> : k \in DOMAIN m}
\* json.Unmarshal into an empty map
Unmarshal(f) == [k \in {p[1] : p \in f} |-> (CHOOSE p \in f : p[1] = k)[2]]

EmptyMap == [k \in {} |-> TRUE]
NoFile == [exists |-> FALSE, data |-> {}]
FileOf(m) == [exists |-> TRUE, data |-> Marshal(m)]

\* loadWordCache, loadWordUnknown: the map after loading, from an empty map
LoadMap(file) == IF file.exists THEN Unmarshal(file.data) ELSE EmptyMap

\* The files a run of the program can leave behind: records are stored only
\* with definitions (line 540); a word can be in both files, when a process
\* ended between the two saves of lines 542 and 547
StoredRecords == {r \in WordCache : Len(r.Definitions) > 0}
CacheMaps == UNION {[S -> StoredRecords] : S \in SUBSET Words}
UnknownMaps == UNION {[S -> {TRUE}] : S \in SUBSET Words}

----------------------------------------------------------------------------
(* Query policy *)

\* queryConfig.yml: absent, unreadable, not YAML, YAML without the key, or
\* YAML that sets queryForUnknownWords
YmlStates == {"missing", "unreadable", "malformed", "nokey", "false", "true"}

\* A defaultConfig that queries unknown words
DefaultQueryForUnknownWords_True == TRUE
\* defaultConfig of loadQueryConfig
DefaultQueryForUnknownWords == FALSE

\* loadQueryConfig: the value returned
loadQueryConfig(yml) ==
    CASE yml \in {"missing", "unreadable", "malformed"} -> DefaultQueryForUnknownWords
      [] yml = "nokey" -> FALSE
      [] yml = "false" -> FALSE
      [] yml = "true" -> TRUE

\* loadQueryConfig: the file it leaves (the default is written when missing)
QueryConfigWritten(yml) ==
    IF yml = "missing"
    THEN (IF DefaultQueryForUnknownWords THEN "true" ELSE "false")
    ELSE yml

\* The file states in which the file sets no query policy
NotConfigured == {"missing", "unreadable", "malformed", "nokey"}

----------------------------------------------------------------------------
(* Tokens, categories and ranking *)

\* unicode.IsLetter and unicode.In(r, unicode.Latin), on ASCII
IsLetter(c) == c \in 65..90 \/ c \in 97..122
IsLatin(c) == c \in 65..90 \/ c \in 97..122

isEnglishText(text) ==
    \A i \in DOMAIN text :
        /\ IsLetter(text[i]) \/ text[i] \in {32, 45, 47}
        /\ IsLatin(text[i])

\* strings.TrimSpace
RECURSIVE TrimLeft(_)
TrimLeft(s) == IF s # <<>> /\ IsSpace(Head(s)) THEN TrimLeft(Tail(s)) ELSE s
RECURSIVE TrimRight(_)
TrimRight(s) ==
    IF s # <<>> /\ IsSpace(s[Len(s)]) THEN TrimRight(SubSeq(s, 1, Len(s) - 1)) ELSE s
TrimSpace(s) == TrimRight(TrimLeft(s))

\* strings.Split(text, "/")
RECURSIVE SplitSlash(_)
SplitSlash(s) ==
    LET cuts == {i \in 1..Len(s) : s[i] = 47} IN
    IF cuts = {} THEN <<s>>
    ELSE LET n == CHOOSE i \in cuts : \A j \in cuts : i <= j
         IN  <<SubSeq(s, 1, n - 1)>> \o SplitSlash(SubSeq(s, n + 1, Len(s)))

splitSlashSeparatedWords(text) ==
    LET parts == SplitSlash(text) IN [i \in DOMAIN parts |-> TrimSpace(parts[i])]

Categories == {"Nouns", "Verbs", "Adjectives", "Adverbs", "OtherWords"}

\* A switch whose verbs leave out the gerund, and without a default
Categorize_NoGerund(tag) ==
    CASE tag \in {"NN", "NNS", "NNP", "NNPS"} -> "Nouns"
      [] tag \in {"VB", "VBD", "VBP", "VBZ"} -> "Verbs"
      [] tag \in {"JJ", "JJR", "JJS"} -> "Adjectives"
      [] tag \in {"RB", "RBR", "RBS"} -> "Adverbs"
      [] tag = "VBG" -> "OtherWords"
      [] OTHER -> ""
\* The switch on tok.Tag in processFile
Categorize(tag) ==
    CASE tag \in {"NN", "NNS", "NNP", "NNPS"} -> "Nouns"
      [] tag \in {"VB", "VBD", "VBP", "VBZ", "VBG"} -> "Verbs"
      [] tag \in {"JJ", "JJR", "JJS"} -> "Adjectives"
      [] tag \in {"RB", "RBR", "RBS"} -> "Adverbs"
      [] OTHER -> "OtherWords"

\* The tokens of the input text: "ab" and "Cd", tagged noun or verb
TokenTexts == {<<97, 98>>, <<67, 100>>}
TokenTags == {"NN", "VB"}
Tokens == [Text : TokenTexts, Tag : TokenTags]

\* The input texts of a run.  processFile reads of the order of the tokens
\* only the order of the lists it builds, of which countFrequencies and
\* sortByFrequency read the counts alone: one text stands for all texts with
\* the same tokens, the one in the order of TokenOrder
TokenOrder == CHOOSE f \in [1..Cardinality(Tokens) -> Tokens] : Range(f) = Tokens
TokenRank(tok) == CHOOSE i \in DOMAIN TokenOrder : TokenOrder[i] = tok
InputTexts ==
    {t \in SeqsUpTo(Tokens, MaxTokens) :
        \A i, j \in DOMAIN t : i < j => TokenRank(t[i]) <= TokenRank(t[j])}

\* The parts of one token that processFile keeps
PartsOf(tok) == SelectSeq(splitSlashSeparatedWords(ToLower(tok.Text)), isEnglishText)

\* processFile: categorizedWords[category]
RECURSIVE CategorizedParts(_, _)
CategorizedParts(tokens, category) ==
    IF tokens = <<>> THEN <<>>
    ELSE (IF Categorize(Head(tokens).Tag) = category THEN PartsOf(Head(tokens)) ELSE <<>>)
         \o CategorizedParts(Tail(tokens), category)

\* The parts processFile counts in allWords, in order
RECURSIVE AllParts(_)
AllParts(tokens) ==
    IF tokens = <<>> THEN <<>> ELSE PartsOf(Head(tokens)) \o AllParts(Tail(tokens))

\* A map from the items of a list to their numbers of occurrences
CountOf(items) ==
    [k \in Range(items) |-> Cardinality({i \in DOMAIN items : items[i] = k})]

countFrequencies(content) ==
    CountOf([i \in DOMAIN content |-> capitalizePhrase(content[i])])

\* Any order of the keys of counts
sortByFrequency_Unsorted(counts) ==
    {s \in [1..Cardinality(DOMAIN counts) -> DOMAIN counts] :
        \A i, j \in DOMAIN s : i # j => s[i] # s[j]}

\* sortByFrequency: the map is iterated in any order and sort.Slice is not
\* stable, so every order of the keys with non-increasing counts can result
sortByFrequency(counts) ==
    {s \in [1..Cardinality(DOMAIN counts) -> DOMAIN counts] :
        /\ \A i, j \in DOMAIN s : i # j => s[i] # s[j]
        /\ \A i, j \in DOMAIN s : i < j => counts[s[i]] >= counts[s[j]]}

RECURSIVE DedupFrom(_, _)
DedupFrom(slice, seen) ==
    IF slice = <<>> THEN <<>>
    ELSE IF Head(slice) \in seen THEN DedupFrom(Tail(slice), seen)
    ELSE <<Head(slice)>> \o DedupFrom(Tail(slice), seen \cup {Head(slice)})

deduplicateStrings(slice) == DedupFrom(slice, {})

\* The files of word lists
WordLists == Categories \cup {"AllWords"}

\* processAllFiles before it has run
IdleRun ==
    [pc |-> "idle",
     allCategorizedWords |-> [c \in Categories |-> <<>>],
     sortedAllWords |-> <<>>,
     todo |-> {},
     category |-> "none",
     sortedWords |-> <<>>,
     i |-> 0,
     unknownWords |-> <<>>,
     wordFiles |-> [f \in WordLists |-> <<>>],
     unknownWordsFile |-> <<>>,
     fetches |-> [w \in Words |-> 0],
     lookups |-> [w \in Words |-> 0]]

----------------------------------------------------------------------------
(* Startup *)

NoRemote == [issued |-> FALSE, kind |-> "none", data |-> NoData]
NoReturn == [kind |-> "none", word |-> <<>>, data |-> NoData]

\* No call yet in this process
Started == [op |-> "start", word |-> <<>>, wasUnknown |-> FALSE, repeat |-> FALSE,
            remote |-> NoRemote]

\* No helper called yet
NoCall == [op |-> "none", arg |-> <<>>, out |-> <<>>]

\* loadConfig: the toggles read here
Configs == [GenerateExplanations : BOOLEAN]

\* main: loadConfig, loadQueryConfig, loadWordCache, loadWordUnknown
Startup(yml, cf, uf) ==
    /\ config \in Configs
    /\ run = IdleRun
    /\ queryConfig = [QueryForUnknownWords |-> loadQueryConfig(yml), given |-> yml]
    /\ queryConfigYml = QueryConfigWritten(yml)
    /\ cacheFile = cf
    /\ unknownFile = uf
    /\ wordCache = LoadMap(cf)
    /\ wordUnknown = LoadMap(uf)
    /\ last = Started
    /\ ret = NoReturn
    /\ tick = 0
    /\ fn = NoCall

\* A first run: no cache file yet
InitFresh == \E yml \in YmlStates : Startup(yml, NoFile, NoFile)

\* A run over the files earlier runs left
Init ==
    \E yml \in YmlStates :
    \E cf \in {NoFile} \cup {FileOf(m) : m \in CacheMaps} :
    \E uf \in {NoFile} \cup {FileOf(m) : m \in UnknownMaps} :
        Startup(yml, cf, uf)

----------------------------------------------------------------------------
(* fetchWordDetails *)

\* A save that leaves the file as it was
saveWordCache_Stale(m, old) == old
\* saveWordCache: the file after the map m is written over old
saveWordCache(m, old) == FileOf(m)
\* A save that leaves the file as it was
saveWordUnknown_Stale(m, old) == old
\* saveWordUnknown: the file after the map m is written over old
saveWordUnknown(m, old) == FileOf(m)

\* A delete that removes nothing
Delete_Keep(m, k) == m
\* delete(m, k)
Delete(m, k) == [x \in DOMAIN m \ {k} |-> m[x]]
\* m[k] = v
Put(m, k, v) == [x \in DOMAIN m \cup {k} |-> IF x = k THEN v ELSE m[x]]

\* The early returns: "<Word>\n\tNo details available.\n"
NoDetails(word) == [kind |-> "Unknown", word |-> capitalizePhrase(word), data |-> NoData]

\* The formatted output for cachedData; a record without definitions gives
\* the line "<Word>: No details available."
Format(word, cachedData) ==
    IF Len(cachedData.Definitions) = 0
    THEN [kind |-> "Empty", word |-> capitalizePhrase(word), data |-> cachedData]
    ELSE [kind |-> "Details", word |-> capitalizePhrase(word), data |-> cachedData]

\* strings.Contains(wordDetails, "No details available.")
isUnknown(wordDetails) == wordDetails.kind \in {"Unknown", "Empty"}

\* A resolver that queries unknown words whatever the policy
SkipsUnknown_Never(word) == FALSE
\* Lines 404-406: the word is unknown and unknown words are not queried
SkipsUnknown(word) ==
    word \in DOMAIN wordUnknown /\ ~queryConfig.QueryForUnknownWords

\* A resolver that never finds a word in wordCache
Exists_Never(word) == FALSE
\* Line 413: cachedData, exists := wordCache[word]
Exists(word) == word \in DOMAIN wordCache

\* A resolver that stores whatever was extracted
HasDefinitions_Always(cachedData) == TRUE
\* Line 540: len(cachedData.Definitions) > 0
HasDefinitions(cachedData) == Len(cachedData.Definitions) > 0

\* The call reaches the remote lookup
Misses(word) == ~SkipsUnknown(word) /\ ~Exists(word)

\* wordUnknown[word] = true; saveWordUnknown(); return "No details available."
MarkUnknown(word) ==
    /\ wordUnknown' = Put(wordUnknown, word, TRUE)
    /\ unknownFile' = saveWordUnknown(wordUnknown', unknownFile)
    /\ ret' = NoDetails(word)
    /\ UNCHANGED <<wordCache, cacheFile>>

\* Lines 540-548: the cache is written, and the word leaves the unknown words
StoreKnown(word, cachedData) ==
    /\ wordCache' = Put(wordCache, ToLower(word), cachedData)
    /\ cacheFile' = saveWordCache(wordCache', cacheFile)
    /\ IF word \in DOMAIN wordUnknown
       THEN /\ wordUnknown' = Delete(wordUnknown, word)
            /\ unknownFile' = saveWordUnknown(wordUnknown', unknownFile)
       ELSE UNCHANGED <<wordUnknown, unknownFile>>
    /\ ret' = Format(word, cachedData)

\* What is recorded of a call: the lowercase word, whether it was unknown when
\* the call began (isUnknown, line 404), whether the call before it in this
\* process was for the same word, and the remote lookup
Called(word, remote) ==
    [op |-> "fetch", word |-> word,
     wasUnknown |-> word \in DOMAIN wordUnknown,
     repeat |-> last.op = "fetch" /\ last.word = word,
     remote |-> remote]

\* fetchWordDetails(arg), the remote lookup ending in out when it is issued
fetchWordDetails(arg, out) ==
    LET word == ToLower(arg) IN
    IF SkipsUnknown(word)
    THEN /\ ret' = NoDetails(word)
         /\ last' = Called(word, NoRemote)
         /\ UNCHANGED <<wordCache, wordUnknown, cacheFile, unknownFile>>
    ELSE IF Exists(word)
    THEN /\ ret' = Format(word, wordCache[word])
         /\ last' = Called(word, NoRemote)
         /\ UNCHANGED <<wordCache, wordUnknown, cacheFile, unknownFile>>
    ELSE IF out.kind # "ok"
    THEN /\ MarkUnknown(word)
         /\ last' = Called(word, [issued |-> TRUE, kind |-> out.kind, data |-> NoData])
    ELSE LET cachedData == BuildCachedData(out.resp) IN
         /\ last' = Called(word, [issued |-> TRUE, kind |-> "ok", data |-> cachedData])
         /\ IF HasDefinitions(cachedData)
            THEN StoreKnown(word, cachedData)
            ELSE MarkUnknown(word)

\* A remote lookup is drawn only for a call that issues one
NoLookup == [kind |-> "request", resp |-> NoResponse]

\* One call of the resolver
Resolve ==
    \E arg \in CallArgs :
        /\ IF Misses(ToLower(arg))
           THEN \E out \in Outcomes : fetchWordDetails(arg, out)
           ELSE fetchWordDetails(arg, NoLookup)
        /\ tick' = 1 - tick
        /\ UNCHANGED <<queryConfig, queryConfigYml, config, run, fn>>

\* The process has ended and the program is started again: main reloads the
\* toggles and the query policy, which may have been edited, and both caches
Restarted(yml) ==
    /\ run.pc \in {"idle", "done"}
    /\ config' \in Configs
    /\ run' = IdleRun
    /\ queryConfig' = [QueryForUnknownWords |-> loadQueryConfig(yml), given |-> yml]
    /\ queryConfigYml' = QueryConfigWritten(yml)
    /\ wordCache' = LoadMap(cacheFile)
    /\ wordUnknown' = LoadMap(unknownFile)
    /\ last' = Started
    /\ ret' = NoReturn
    /\ tick' = 0
    /\ UNCHANGED <<cacheFile, unknownFile, fn>>

Restart == \E yml \in YmlStates : Restarted(yml)

\* A call of fetchWordDetails whose lookup gave definitions, and the process
\* ends after saveWordCache (line 542) and before line 546: word_cache.json
\* has the word, word_unknown.json is as it was.  The program is then
\* started again and main loads both files.
CrashedInStore(yml) ==
    /\ run.pc \in {"idle", "done"}
    /\ \E arg \in CallArgs :
       \E out \in Outcomes :
           LET word == ToLower(arg)
               cachedData == BuildCachedData(out.resp)
           IN  /\ Misses(word)
               /\ out.kind = "ok"
               /\ HasDefinitions(cachedData)
               /\ cacheFile' = saveWordCache(Put(wordCache, word, cachedData), cacheFile)
    /\ UNCHANGED <<unknownFile, fn>>
    /\ config' \in Configs
    /\ run' = IdleRun
    /\ queryConfig' = [QueryForUnknownWords |-> loadQueryConfig(yml), given |-> yml]
    /\ queryConfigYml' = QueryConfigWritten(yml)
    /\ wordCache' = LoadMap(cacheFile')
    /\ wordUnknown' = LoadMap(unknownFile)
    /\ last' = Started
    /\ ret' = NoReturn
    /\ tick' = 0

Crash == \E yml \in YmlStates : CrashedInStore(yml)

----------------------------------------------------------------------------
(* processAllFiles *)

hasWordDetails(arg) ==
    LET word == ToLower(arg) IN
    IF word \in DOMAIN wordUnknown THEN FALSE
    ELSE IF word \in DOMAIN wordCache THEN Len(wordCache[word].Definitions) > 0
    ELSE FALSE

\* A call of fetchWordDetails from the pipeline
FetchFromRun(arg) ==
    /\ IF Misses(ToLower(arg))
       THEN \E out \in Outcomes : fetchWordDetails(arg, out)
       ELSE fetchWordDetails(arg, NoLookup)
    /\ tick' = 1 - tick

\* The run's counts after a call for arg
Counted(r, arg) ==
    [r EXCEPT !.fetches[ToLower(arg)] = @ + 1,
              !.lookups[ToLower(arg)] = IF last'.remote.issued THEN @ + 1 ELSE @]

\* Lines 816-878: the input text is read and tokenized, the words of each
\* category are merged and all words are sorted by frequency
ProcessFiles ==
    /\ run.pc = "idle"
    /\ \E tokens \in InputTexts :
       \E sorted \in sortByFrequency(CountOf(AllParts(tokens))) :
           run' = [IdleRun EXCEPT
                     !.pc = "categories",
                     !.allCategorizedWords =
                         [c \in Categories |-> CategorizedParts(tokens, c)],
                     !.sortedAllWords = sorted,
                     !.todo = Categories]
    /\ UNCHANGED <<queryConfigYml, queryConfig, wordCache, wordUnknown, cacheFile,
                   unknownFile, last, ret, tick, config, fn>>

\* The categories still to come that have words
Pending(r) == {c \in r.todo : r.allCategorizedWords[c] # <<>>}

\* Lines 884-934: the next category of the map, in any order; the categories
\* without words are passed over (line 889) whenever their turn comes
NextCategory ==
    /\ run.pc = "categories"
    /\ \E category \in Pending(run) :
       \E sorted \in sortByFrequency(countFrequencies(run.allCategorizedWords[category])) :
           run' = [run EXCEPT !.todo = @ \ {category},
                              !.category = category,
                              !.sortedWords = deduplicateStrings(sorted),
                              !.i = 1,
                              !.pc = "words"]
    /\ UNCHANGED <<queryConfigYml, queryConfig, wordCache, wordUnknown, cacheFile,
                   unknownFile, last, ret, tick, config, fn>>

\* Lines 937-968: one word of the category is looked up and listed
LookupWord ==
    /\ run.pc = "words"
    /\ LET word == run.sortedWords[run.i]
           next == [run EXCEPT !.i = @ + 1,
                               !.pc = IF run.i = Len(run.sortedWords)
                                      THEN "categories" ELSE "words"]
       IN  /\ FetchFromRun(word)
           /\ run' = IF isUnknown(ret')
                     THEN Counted([next EXCEPT !.unknownWords =
                                       Append(@, capitalizePhrase(word))], word)
                     ELSE Counted([next EXCEPT !.wordFiles[run.category] =
                                       Append(@, capitalizePhrase(word))], word)
    /\ UNCHANGED <<queryConfigYml, queryConfig, config, fn>>

\* Lines 1020-1030: after the last category UnknownWords.txt is written
FinalOutputs ==
    /\ run.pc = "categories"
    /\ Pending(run) = {}
    /\ LET all == deduplicateStrings(run.sortedAllWords) IN
       run' = [run EXCEPT !.todo = {},
                          !.unknownWords = deduplicateStrings(@),
                          !.unknownWordsFile = deduplicateStrings(run.unknownWords),
                          !.sortedAllWords = all,
                          !.i = 1,
                          !.pc = IF all = <<>> THEN "done" ELSE "allWords"]
    /\ UNCHANGED <<queryConfigYml, queryConfig, wordCache, wordUnknown, cacheFile,
                   unknownFile, last, ret, tick, config, fn>>

\* Lines 1031-1051: one word of the AllWords pass
AllWordsStep ==
    /\ run.pc = "allWords"
    /\ LET word == run.sortedAllWords[run.i]
           next == [run EXCEPT !.i = @ + 1,
                               !.pc = IF run.i = Len(run.sortedAllWords)
                                      THEN "done" ELSE "allWords"]
           listed == [next EXCEPT !.wordFiles["AllWords"] =
                          Append(@, capitalizePhrase(word))]
       IN  IF ~hasWordDetails(word)
           THEN /\ run' = next
                /\ UNCHANGED <<wordCache, wordUnknown, cacheFile, unknownFile,
                               last, ret, tick>>
           ELSE IF config.GenerateExplanations
           THEN /\ FetchFromRun(word)
                /\ run' = Counted(listed, word)
           ELSE /\ run' = listed
                /\ UNCHANGED <<wordCache, wordUnknown, cacheFile, unknownFile,
                               last, ret, tick>>
    /\ UNCHANGED <<queryConfigYml, queryConfig, config, fn>>

----------------------------------------------------------------------------
(* The helpers, called on their own *)

\* A call of a helper: the helpers read and write no state of the program,
\* so a call does not depend on the calls before it, and a behaviour is one
\* call; only fn changes
HelperCall ==
    /\ fn = NoCall
    /\ UNCHANGED <<queryConfigYml, queryConfig, wordCache, wordUnknown,
                   cacheFile, unknownFile, last, ret, tick, config, run>>

\* The phrases of the lists that are ranked: "ab", "AB", "cd" and "a  b"
PhraseTexts == {<<97, 98>>, <<65, 66>>, <<99, 100>>, <<97, 32, 32, 98>>}

\* Lines 886-887 and 934, twice on the same list: countFrequencies,
\* sortByFrequency, deduplicateStrings
RankWords ==
    /\ HelperCall
    /\ \E items \in SeqsUpTo(PhraseTexts, MaxItems) :
       \E first, second \in sortByFrequency(countFrequencies(items)) :
           fn' = [op |-> "rank", arg |-> items,
                  out |-> [first |-> deduplicateStrings(first),
                           second |-> deduplicateStrings(second)]]

\* The example sentences of the records whose examples are generated: none,
\* "e", "f", and a sentence that is one space
SampleTexts == {<<>>, <<101>>, <<102>>, <<32>>}
SampleDefinition == [PartOfSpeech : {"noun"}, Definition : {"d"}, Example : SampleTexts]
SampleRecords == [Definitions : SeqsUpTo(SampleDefinition, MaxExamples)]

capitalizeSentence(sentence) ==
    IF Len(sentence) = 0 THEN <<>>
    ELSE <<ToUpperChar(sentence[1])>> \o Tail(sentence)

\* Lines 649-656: the examples of the definitions that have one, capitalized
RECURSIVE CollectExamples(_)
CollectExamples(defs) ==
    IF defs = <<>> THEN <<>>
    ELSE (IF Head(defs).Example # <<>>
          THEN <<capitalizeSentence(Head(defs).Example)>> ELSE <<>>)
         \o CollectExamples(Tail(defs))

\* A removal that leaves the slice as it was
RemoveAt_Keep(slice, k) == slice
\* Line 688: append(examplesCopy[:randIndex], examplesCopy[randIndex+1:]...),
\* on the position k = randIndex + 1
RemoveAt(slice, k) == SubSeq(slice, 1, k - 1) \o SubSeq(slice, k + 1, Len(slice))

\* Lines 682-689: the elements of examplesCopy selected by the indices drawn
RECURSIVE SelectFrom(_, _)
SelectFrom(examplesCopy, picks) ==
    IF picks = <<>> THEN <<>>
    ELSE <<examplesCopy[Head(picks) + 1]>>
         \o SelectFrom(RemoveAt(examplesCopy, Head(picks) + 1), Tail(picks))

\* Line 684: the values rand.Intn(len(examplesCopy)) can take in the
\* maxExamples rounds of the loop, over totalExamples examples
RandomPicks(totalExamples, maxExamples) ==
    {p \in [1..maxExamples -> 0..(totalExamples - 1)] :
        \A i \in DOMAIN p : p[i] <= totalExamples - i}

\* removeEmptyLines, on the lines of the text
removeEmptyLines(lines) == SelectSeq(lines, LAMBDA line : TrimSpace(line) # <<>>)

\* The empty string returned at lines 637, 643 and 659
NoContent == [positions |-> <<>>, lines |-> <<>>]

\* generateExampleSentencesContent(arg) with the given globals and random
\* draws: the lines returned, and the positions in examples of the examples
\* written.  An example sentence has no line break in it.
generateExampleSentencesContent(arg, unknown, cache, maxExamples, picks) ==
    LET word == ToLower(arg) IN
    IF word \in DOMAIN unknown THEN NoContent
    ELSE IF word \notin DOMAIN cache THEN NoContent
    ELSE IF Len(cache[word].Definitions) = 0 THEN NoContent
    ELSE LET examples == CollectExamples(cache[word].Definitions)
             totalExamples == Len(examples)
             all == [i \in 1..totalExamples |-> i]
             selected == IF maxExamples = 0 \/ maxExamples >= totalExamples
                         THEN all ELSE SelectFrom(all, picks)
             written == [i \in DOMAIN selected |-> <<9>> \o examples[selected[i]]]
         IN  IF totalExamples = 0 THEN NoContent
             ELSE [positions |-> selected,
                   lines |-> removeEmptyLines(<<capitalizePhrase(word)>> \o written)]

\* The draws of a call for a word whose cached record is record
DrawsFor(record, maxExamples) ==
    LET totalExamples == Len(CollectExamples(record.Definitions)) IN
    IF maxExamples = 0 \/ maxExamples >= totalExamples THEN {<<>>}
    ELSE RandomPicks(totalExamples, maxExamples)

\* One call of generateExampleSentencesContent for "ab", cached with some
\* record or not, unknown or not, under some MaxExampleSentences
GenerateExamples ==
    /\ HelperCall
    /\ \E record \in SampleRecords :
       \E cached, unknown \in BOOLEAN :
       \E maxExamples \in 0..(MaxExamples + 1) :
       \E picks \in DrawsFor(record, maxExamples) :
           fn' = [op |-> "examples",
                  arg |-> [record |-> record, cached |-> cached, unknown |-> unknown,
                           maxExamples |-> maxExamples],
                  out |-> generateExampleSentencesContent(
                              wAb,
                              IF unknown THEN [w \in {wAb} |-> TRUE] ELSE EmptyMap,
                              IF cached THEN [w \in {wAb} |-> record] ELSE EmptyMap,
                              maxExamples, picks)]

\* The characters of the texts tested: "a", "Z", space, "-", "/" and "."
TextChars == {97, 90, 32, 45, 47, 46}

\* Lines 745-754: isEnglishText on a text, and the parts of a token with
\* that text that processFile counts in allWords
Eligible ==
    /\ HelperCall
    /\ \E text \in SeqsUpTo(TextChars, MaxChars) :
           fn' = [op |-> "isEnglishText", arg |-> text,
                  out |-> [eligible |-> isEnglishText(text),
                           counted |-> PartsOf([Text |-> text, Tag |-> "NN"])]]

\* The tags of the switch, and tags it does not name: a past participle, a
\* determiner, punctuation, the empty tag, a lowercase tag, an unknown tag
SwitchTags == {"NN", "NNS", "NNP", "NNPS", "VB", "VBD", "VBP", "VBZ", "VBG",
               "JJ", "JJR", "JJS", "RB", "RBR", "RBS"}
OtherTags == {"VBN", "DT", ".", ",", "", "nn", "XX"}

\* Lines 755-768: the category of a part whose token has the tag
Categorized ==
    /\ HelperCall
    /\ \E tag \in SwitchTags \cup OtherTags :
           fn' = [op |-> "categorize", arg |-> tag, out |-> Categorize(tag)]

Next == Resolve \/ Restart

Spec == Init /\ [][Next]_vars

\* The resolver from empty caches
SpecFresh == InitFresh /\ [][Next]_vars

\* The query policies of the runs: none given, or unknown words queried
RunYmls == {"missing", "true"}

InitRun == \E yml \in RunYmls : Startup(yml, NoFile, NoFile)

Rerun == \E yml \in RunYmls : Restarted(yml)

NextRun ==
    \/ ProcessFiles
    \/ NextCategory
    \/ LookupWord
    \/ FinalOutputs
    \/ AllWordsStep
    \/ Rerun

\* Runs of the pipeline, one per process, the first without cache files
SpecRun == InitRun /\ [][NextRun]_vars

NextCrash == Resolve \/ Restart \/ Crash

\* The resolver from empty caches, in processes that can end inside a call
SpecCrash == InitFresh /\ [][NextCrash]_vars

InitHelpers == Startup("missing", NoFile, NoFile)

NextHelpers ==
    \/ RankWords
    \/ GenerateExamples
    \/ Eligible
    \/ Categorized

\* Calls of the helpers of the pipeline, on arguments of their types
SpecHelpers == InitHelpers /\ [][NextHelpers]_vars


----------------------------------------------------------------------------
(* Properties of the resolver *)

Caches == <<wordCache, wordUnknown, cacheFile, unknownFile>>
Senses(data) == Len(data.Definitions)

\* C1: from empty caches, after any sequence of fetchWordDetails calls, no
\* word is a key of both wordCache and wordUnknown.
C1_MutualExclusion == DOMAIN wordCache \cap DOMAIN wordUnknown = {}

\* A word that was unknown has been looked up again and stored
C1_Witness ==
    /\ last.op = "fetch" /\ last.wasUnknown /\ last.remote.issued
    /\ last.word \in DOMAIN wordCache

\* C2 as stated: the second of two calls in a row for the same word never
\* issues a remote lookup.
C2_Original ==
    [][(last.op = "fetch" /\ last'.op = "fetch" /\ last'.word = last.word)
        => ~last'.remote.issued]_vars

\* C2, amended: when unknown words are not re-queried or the first call
\* returned a record, the second of two calls in a row for the same word
\* issues no remote lookup, is answered from wordCache or wordUnknown, and
\* returns the record the first call returned.
C2_SecondCallCached ==
    [][(/\ last.op = "fetch" /\ last'.op = "fetch" /\ last'.word = last.word
        /\ (~queryConfig.QueryForUnknownWords \/ ret.kind = "Details"))
        => /\ ~last'.remote.issued
           /\ last'.word \in DOMAIN wordCache \cup DOMAIN wordUnknown
           /\ UNCHANGED Caches
           /\ ret.kind = "Details" => ret' = ret]_vars

\* The same word twice in a row, the second call served from wordCache
C2_Witness ==
    /\ last.op = "fetch" /\ last.repeat /\ ~last.remote.issued
    /\ ret.kind = "Details"

\* C3: a remote lookup that fails (request, transport, status, parse, empty
\* list) returns "No details available.", leaves the word in wordUnknown and
\* in word_unknown.json, and leaves wordCache and word_cache.json unchanged.
C3_FailureIsUnknown ==
    [][(last'.op = "fetch" /\ last'.remote.issued
        /\ last'.remote.kind \in FailureKinds)
        => /\ ret'.kind = "Unknown"
           /\ last'.word \in DOMAIN wordUnknown'
           /\ unknownFile'.exists
           /\ last'.word \in DOMAIN Unmarshal(unknownFile'.data)
           /\ UNCHANGED <<wordCache, cacheFile>>]_vars

\* A lookup failed for a word that was not yet unknown
C3_Witness ==
    /\ last.op = "fetch" /\ last.remote.kind \in FailureKinds
    /\ ~last.wasUnknown /\ last.word \in DOMAIN wordUnknown

\* C4: after a remote lookup that yields at least one definition, the word
\* is in wordCache with that record, is not in wordUnknown, both files hold
\* the change, and the record is what the call returns.
C4_SuccessIsStored ==
    (last.op = "fetch" /\ last.remote.kind = "ok" /\ Senses(last.remote.data) >= 1)
    => /\ last.word \in DOMAIN wordCache
       /\ wordCache[last.word] = last.remote.data
       /\ last.word \notin DOMAIN wordUnknown
       /\ cacheFile.exists
       /\ <<last.word, last.remote.data>> \in cacheFile.data
       /\ \A p \in unknownFile.data : p[1] # last.word
       /\ ret.kind = "Details" /\ ret.data = last.remote.data

\* A word that was unknown is resolved
C4_Witness ==
    /\ last.op = "fetch" /\ last.remote.kind = "ok" /\ last.wasUnknown
    /\ Senses(last.remote.data) >= 1

\* C5: while unknown words are not queried, a call for a word of wordUnknown
\* returns "No details available." with no remote lookup and no change to a
\* cache, and the word stays in wordUnknown, over restarts too.
C5_UnknownStays ==
    [][\A w \in Words :
        (w \in DOMAIN wordUnknown /\ ~queryConfig.QueryForUnknownWords
         /\ ~queryConfig'.QueryForUnknownWords)
        => /\ w \in DOMAIN wordUnknown'
           /\ (last'.op = "fetch" /\ last'.word = w)
              => /\ ret'.kind = "Unknown"
                 /\ ~last'.remote.issued
                 /\ UNCHANGED Caches]_vars

\* A call for an unknown word was answered without a lookup
C5_Witness ==
    /\ ~queryConfig.QueryForUnknownWords
    /\ last.op = "fetch" /\ last.wasUnknown /\ ~last.remote.issued
    /\ ret.kind = "Unknown"

\* C6: no call stores a record without definitions in wordCache; a response
\* from which no definition is extracted puts the word in wordUnknown and in
\* word_unknown.json and returns "No details available.".
C6_NoEmptyRecord ==
    [][/\ \A w \in DOMAIN wordCache' :
            (w \notin DOMAIN wordCache \/ wordCache'[w] # wordCache[w])
            => Senses(wordCache'[w]) >= 1
       /\ (last'.op = "fetch" /\ last'.remote.kind = "ok"
           /\ Senses(last'.remote.data) = 0)
          => /\ ret'.kind = "Unknown"
             /\ last'.word \in DOMAIN wordUnknown'
             /\ last'.word \in DOMAIN LoadMap(unknownFile')
             /\ UNCHANGED <<wordCache, cacheFile>>]_vars

\* A response parsed, and no definition was extracted from it
C6_Witness ==
    /\ last.op = "fetch" /\ last.remote.kind = "ok"
    /\ Senses(last.remote.data) = 0
    /\ last.word \in DOMAIN wordUnknown

\* C7: between calls, word_cache.json holds wordCache and word_unknown.json
\* holds wordUnknown.
C7_Flushed ==
    /\ LoadMap(cacheFile) = wordCache
    /\ LoadMap(unknownFile) = wordUnknown

\* A call has changed both maps
C7_Witness ==
    /\ last.op = "fetch" /\ last.wasUnknown
    /\ last.word \in DOMAIN wordCache /\ last.word \notin DOMAIN wordUnknown
    /\ cacheFile.exists /\ unknownFile.exists

\* C8: a call for a word of wordCache that is not in wordUnknown returns the
\* cached record, issues no remote lookup and changes neither map nor file.
C8_CacheHitIsFinal ==
    [][(last'.op = "fetch" /\ last'.word \in DOMAIN wordCache
        /\ last'.word \notin DOMAIN wordUnknown)
        => /\ ret'.kind = "Details"
           /\ ret'.data = wordCache[last'.word]
           /\ ~last'.remote.issued
           /\ UNCHANGED Caches]_vars

\* A call was answered from wordCache
C8_Witness ==
    /\ last.op = "fetch" /\ ~last.wasUnknown /\ ~last.remote.issued
    /\ ret.kind = "Details" /\ last.word \in DOMAIN wordCache

\* C10 as stated: when queryConfig.yml sets no policy, a call for a word of
\* wordUnknown (that wordCache does not hold) issues a remote lookup.
C10_Original ==
    (last.op = "fetch" /\ queryConfig.given \in NotConfigured
     /\ last.wasUnknown /\ last.word \notin DOMAIN wordCache)
    => last.remote.issued

\* C10, amended: when queryConfig.yml sets no policy, QueryForUnknownWords is
\* false and a call for a word of wordUnknown returns "No details available."
\* with no remote lookup; such a word is looked up again only when
\* queryConfig.yml sets queryForUnknownWords to true.
C10_DefaultSkips ==
    /\ queryConfig.given \in NotConfigured => ~queryConfig.QueryForUnknownWords
    /\ (last.op = "fetch" /\ last.wasUnknown /\ queryConfig.given \in NotConfigured)
       => ~last.remote.issued /\ ret.kind = "Unknown"
    /\ (last.op = "fetch" /\ last.wasUnknown /\ last.remote.issued)
       => queryConfig.given = "true"

\* Without a policy in queryConfig.yml, a call for an unknown word returned
C10_Witness ==
    /\ queryConfig.given = "missing"
    /\ last.op = "fetch" /\ last.wasUnknown /\ ret.kind = "Unknown"

----------------------------------------------------------------------------
(* Properties of a run *)

\* The categories in which the word w occurs in the run's input
CategoriesOf(w) ==
    {c \in Categories : w \in Range(run.allCategorizedWords[c])}

\* C9 as stated: in one run at most one remote lookup is issued per word.
C9_Original == \A w \in Words : run.lookups[w] <= 1

\* C9, amended: in one run fetchWordDetails is called for a word once per
\* category the word occurs in, and once more in the AllWords pass when
\* explanations are generated; the remote lookups of the word are at most one
\* when unknown words are not queried, and at most one per category of the
\* word otherwise.
C9_LookupsPerWord ==
    \A w \in Words :
        /\ run.fetches[w] <= Cardinality(CategoriesOf(w))
                             + (IF config.GenerateExplanations THEN 1 ELSE 0)
        /\ run.lookups[w] <= Cardinality(CategoriesOf(w))
        /\ ~queryConfig.QueryForUnknownWords => run.lookups[w] <= 1

\* A word of two categories was looked up for each of them
C9_Witness ==
    /\ run.pc = "done"
    /\ \E w \in Words : Cardinality(CategoriesOf(w)) = 2 /\ run.lookups[w] = 2

\* C17: within one run no word is written both to UnknownWords.txt and to
\* a list of known words (the list of a category, or AllWords.txt), whatever
\* the categories of the words, the outcomes of the lookups and the query
\* policy.
C17_ListsConsistent ==
    \A f \in WordLists :
        Range(run.unknownWordsFile) \cap Range(run.wordFiles[f]) = {}

----------------------------------------------------------------------------
(* Properties of the files across crashes *)

\* The words of word_cache.json and of word_unknown.json
Persisted(file) == DOMAIN LoadMap(file)

\* C16: at every instant, the points inside a call where the process can end
\* included, no word is in both word_cache.json and word_unknown.json, and
\* so after a reload no word with a cached record is reported unknown.
C16_PersistedDisjoint ==
    /\ Persisted(cacheFile) \cap Persisted(unknownFile) = {}
    /\ last.op = "fetch" /\ ret.kind = "Unknown" /\ ~last.remote.issued
           => last.word \notin DOMAIN wordCache

----------------------------------------------------------------------------
(* Properties of the helpers *)

\* The occurrences in items of the phrases that title-case to phrase
Occurrences(items, phrase) ==
    Cardinality({i \in DOMAIN items : capitalizePhrase(items[i]) = phrase})

\* C11: for every list of phrases, deduplicateStrings of sortByFrequency of
\* countFrequencies holds each distinct title-cased phrase of the list exactly
\* once and no other phrase, and a phrase that comes before another has at
\* least as many occurrences in the list.
C11_RankedOnce ==
    fn.op = "rank" =>
        LET items == fn.arg
            ranked == fn.out.first
        IN  /\ Range(ranked) = {capitalizePhrase(items[i]) : i \in DOMAIN items}
            /\ \A i, j \in DOMAIN ranked : i # j => ranked[i] # ranked[j]
            /\ \A i, j \in DOMAIN ranked :
                   i < j => Occurrences(items, ranked[i]) >= Occurrences(items, ranked[j])

\* "ab" once and "cd", "a  b" (twice: title-cased to one phrase) are ranked
C11_Witness ==
    /\ fn.op = "rank"
    /\ fn.arg = <<<<97, 32, 32, 98>>, <<97, 98>>, <<65, 66>>>>
    /\ fn.out.first = <<<<65, 98>>, <<65, 32, 66>>>>

\* C12: ranking is deterministic: two runs of the ranking on the same
\* frequency table give the same sequence, the order of the phrases with
\* equal counts included.
C12_Deterministic ==
    fn.op = "rank" => fn.out.first = fn.out.second

\* The record of the call has n examples and is read: the word is cached
\* and is not unknown
Sampled == fn.op = "examples" /\ fn.arg.cached /\ ~fn.arg.unknown

\* The examples of the record that are not the empty string, capitalized
Available ==
    LET defs == fn.arg.record.Definitions
        has == SelectSeq(defs, LAMBDA def : def.Example # <<>>)
    IN  [i \in DOMAIN has |-> capitalizeSentence(has[i].Example)]

\* The examples in the text returned: the lines after the line of the word,
\* without their tab
Emitted ==
    IF fn.out.lines = <<>> THEN <<>>
    ELSE [i \in 1..(Len(fn.out.lines) - 1) |-> Tail(fn.out.lines[i + 1])]

\* All examples in their order when maxCount is 0 or at least n; exactly
\* maxCount examples from distinct positions when maxCount is in 1..n-1
EmitsAsSampled ==
    LET n == Len(Available)
        maxCount == fn.arg.maxExamples
        positions == fn.out.positions
    IN  /\ (maxCount = 0 \/ maxCount >= n) => Emitted = Available
        /\ (1 <= maxCount /\ maxCount <= n - 1) =>
               /\ Len(Emitted) = maxCount
               /\ Len(positions) = maxCount
               /\ \A i \in DOMAIN positions : positions[i] \in 1..n
               /\ \A i, j \in DOMAIN positions : i # j => positions[i] # positions[j]
               /\ \A i \in DOMAIN positions : Emitted[i] = Available[positions[i]]

\* C13 as stated: for a record with n non-empty example sentences, all n are
\* emitted in their order when maxCount is 0 or at least n, and exactly
\* maxCount, from distinct positions, when maxCount is in 1..n-1.
C13_Original == Sampled => EmitsAsSampled

\* No example of the record is made of white space only
NoBlankExample ==
    \A i \in DOMAIN fn.arg.record.Definitions :
        LET example == fn.arg.record.Definitions[i].Example
        IN  example = <<>> \/ TrimSpace(example) # <<>>

\* C13: for a record with n non-empty example sentences of which none is
\* white space only, all n are emitted in their order when maxCount is 0 or
\* at least n, and exactly maxCount, from distinct positions, when maxCount is
\* in 1..n-1.
C13_SampledWithoutReplacement == Sampled /\ NoBlankExample => EmitsAsSampled

\* Two of three examples are drawn, the later one first
C13_Witness ==
    /\ Sampled
    /\ NoBlankExample
    /\ Len(Available) = 3
    /\ fn.arg.maxExamples = 2
    /\ fn.out.positions = <<3, 1>>
    /\ Emitted = <<<<70>>, <<69>>>>

\* A text with a letter of the Latin script in it
HasLatinLetter(text) == \E i \in DOMAIN text : IsLetter(text[i]) /\ IsLatin(text[i])

\* C14: isEnglishText returns true only if every character of the text is a
\* Latin letter, a space, a hyphen or a slash and the text has at least one
\* Latin letter: the empty string and the strings of separators only are
\* rejected, and never enter the frequency table.
C14_Eligible ==
    fn.op = "isEnglishText" =>
        /\ fn.out.eligible =>
               /\ \A i \in DOMAIN fn.arg :
                      (IsLetter(fn.arg[i]) /\ IsLatin(fn.arg[i])) \/ fn.arg[i] \in {32, 45, 47}
               /\ HasLatinLetter(fn.arg)
        /\ \A i \in DOMAIN fn.out.counted : HasLatinLetter(fn.out.counted[i])

\* C15: the category is a total function of the tag: NN, NNS, NNP, NNPS
\* give Nouns; VB, VBD, VBP, VBZ, VBG give Verbs; JJ, JJR, JJS give
\* Adjectives; RB, RBR, RBS give Adverbs; every other tag gives OtherWords.
C15_CategorizeTotal ==
    fn.op = "categorize" =>
        LET tag == fn.arg
            label == fn.out
        IN  /\ label \in {"Nouns", "Verbs", "Adjectives", "Adverbs", "OtherWords"}
            /\ label = "Nouns" <=> tag \in {"NN", "NNS", "NNP", "NNPS"}
            /\ label = "Verbs" <=> tag \in {"VB", "VBD", "VBP", "VBZ", "VBG"}
            /\ label = "Adjectives" <=> tag \in {"JJ", "JJR", "JJS"}
            /\ label = "Adverbs" <=> tag \in {"RB", "RBR", "RBS"}

\* A tag the switch does not name falls to OtherWords
C15_Witness == fn.op = "categorize" /\ fn.arg = "VBN" /\ fn.out = "OtherWords"

====
